---- MODULE Spec2Model ----
(***************************************************************************)
(* logquery: the incremental line index (crate line-index-reader) and the  *)
(* line cache on top of it (crate line-cache).                             *)
(*                                                                         *)
(* A file is a sequence of bytes.  The alphabet is the newline, one ASCII  *)
(* letter and the two bytes of one two-byte UTF-8 character, so that a     *)
(* line's character count can be smaller than its byte count.             *)
(***************************************************************************)
EXTENDS Integers, Sequences, FiniteSets, TLC

\* ------------------------------------------------------------------ bounds
MaxFileLen == 4     \* longest file, in bytes
MaxArg == 2         \* largest line number passed to a query
MaxEvents == 3      \* events the monitor emits in one run
MaxPending == 2     \* events waiting in the monitor's channel
QueueCapacity == 2  \* the capacity the lines-request channel runs at: mpsc::channel(1024),
                    \* scaled so that it can fill up
Capacity == 3       \* the capacity the weighted store runs at: max_capacity is
                    \* CACHE_MAX_CAPACITY = 256 MiB, scaled so that it can be exceeded
BurstLen == 12      \* lines the writer appends in one burst
MaxInodes == 2      \* files created under the watched path, one after the other
MaxDirLen == 3      \* longest file under the watched path, in bytes
MaxNotified == 3    \* notify events waiting for the watcher's handler
WideEnd == 300      \* the end of a wide query range

MaxFiles == 2       \* files the Repository lists
MaxStamp == 1       \* largest line count and largest last-update time of a file

\* --------------------------------------------------------------- constants
NL == 10            \* b'\n'
CR == 13            \* '\r', stripped by BufRead::lines together with '\n'

\* What a writer appends in one step: "a", "\n" or the two bytes of U+00E9.
Chunks == { <<97>>, <<NL>>, <<195, 169>> }

None == -1          \* Option::None of a number, a byte or a character

PREFETCH_FACTOR == 10       \* len.saturating_mul(10)
PREFETCH_MAX == 2048        \* .min(2_048)

VARIABLES
    file,       \* the bytes of the file on disk
    reader,     \* "none": no LineIndexReader; "ready"; "poisoned": its RwLock is poisoned
    offsets,    \* LineIndexReader.offsets
    since,      \* history: how the file changed since the last successful index()/update():
                \*   "same" (same content), "appended" (only grown), "truncated" (only cut), "other"
    slen,       \* history: the length of the file at that call
    cache,      \* LineCache.cache: line number -> content, for the cached lines
    hist,       \* history: what happened to the file since the last index():
                \*   "untouched" (no write), "grown" (appends only), "other"
    last,       \* history: the last call, its arguments and the state it started from
    res,        \* history: what the last call returned
    store,      \* the weighted store of a LineCache taken alone: line number -> content
    recency,    \* the store's keys, least recently used first
    evicted,    \* history: the keys the store's last insertion evicted, in order
    events,     \* the monitor's channel: events emitted and not yet taken, oldest first
    emitted,    \* history: the number of events emitted so far
    requests,   \* the lines-request channel of the Repository, oldest first
    worker,     \* the worker task: "idle" in select!, handling an "event" or a
                \*   "request", or "panicked"
    cur,        \* the event or request the worker is handling
    inflight,   \* history: handlers begun and not yet finished
    done,       \* history: the number of events handled to completion
    removed,    \* history: the last event that changed the map was a Removed
    updated,    \* Entry.updated, as the number of the event that set it
    stuck,      \* history: an update() of the entry's reader returned
                \*   InconsistentIndex and no Created or Removed came since
    upc,        \* a concurrent update(): "idle", then "checked", "len", "offset",
                \*   "scanned", "extended" as it passes its lock acquisitions
    uold,       \* its old_len
    uoff,       \* its offset, the last table entry it read
    uscan,      \* the offsets its rescan returned
    ubase,      \* history: the table when the rescan returned
    uk,         \* the tables its extend has made visible so far
    rpc,        \* a concurrent lines(): "idle", then "start" (offset read), "end" (limit read)
    rq,         \* its range, offset and limit
    rtabs,      \* history: the whole tables (before or after an update's append)
                \*   that existed during the reader's last call
    upd2,       \* a second concurrent update() on the same reader: its position
                \*   (as upc), its old_len, its offset and the offsets of its rescan
    dir,        \* the directory a Monitor watches, with one path in it: whether the
                \*   path exists, and the content of every file that had the path
    files,      \* Monitor's map of open files: the File kept for the path (the file
                \*   it was opened on and its read position), or NoFile
    notified,   \* the notify events the watcher has not handled yet, oldest first
    tx,         \* the events sent on the Monitor's channel, in order
    watching,   \* whether Monitor::create has run and the watcher is set up
    mhist,      \* history: whether the path existed at Monitor::create, how many
                \*   events create sent, the notify event handled last and how
                \*   many events it sent
    listing,    \* what Repository::list() returns now: a Vec<FileInfo>
    fls         \* the FileListState of the file list widget

ixVars == <<file, reader, offsets, cache, since, slen, hist, last, res>>

storeVars == <<store, recency, evicted>>

\* What the index and cache operations leave alone.
repoVars == <<events, emitted, requests, worker, cur, inflight, done, removed, updated,
              stuck>>

concVars == <<upc, uold, uoff, uscan, ubase, uk, rpc, rq, rtabs, upd2>>

monVars == <<dir, files, notified, tx, watching, mhist>>

uiVars == <<listing, fls>>

others == <<storeVars, repoVars, concVars, monVars, uiVars>>

vars == <<ixVars, storeVars, repoVars, concVars, monVars, uiVars>>

\* ----------------------------------------------------------------- helpers
Min(x, y) == IF x <= y THEN x ELSE y

\* The bytes of f from byte position pos (0-based) to the end.
From(f, pos) == SubSeq(f, pos + 1, Len(f))

\* str::from_utf8 on the model's alphabet: one-byte and two-byte sequences.
RECURSIVE Utf8Valid(_)
Utf8Valid(buf) ==
    IF buf = <<>> THEN TRUE
    ELSE IF buf[1] < 128 THEN Utf8Valid(Tail(buf))
    ELSE IF buf[1] >= 194 /\ buf[1] <= 223
            /\ Len(buf) >= 2 /\ buf[2] >= 128 /\ buf[2] <= 191
         THEN Utf8Valid(Tail(Tail(buf)))
    ELSE FALSE

\* str::chars: the code points of a valid buffer.
RECURSIVE chars(_)
chars(buf) ==
    IF buf = <<>> THEN <<>>
    ELSE IF buf[1] < 128 THEN <<buf[1]>> \o chars(Tail(buf))
    ELSE <<(buf[1] - 192) * 64 + (buf[2] - 128)>> \o chars(Tail(Tail(buf)))

\* Iterator::nth on chars(): the n-th character, counted from 0.
chars_nth(buf, n) ==
    LET cs == chars(buf) IN IF n < Len(cs) THEN cs[n + 1] ELSE None

\* BufRead::read_line's bytes: from pos up to and including the next '\n',
\* or up to the end of the file.
read_line(f, pos) ==
    LET rest == From(f, pos)
        nls == { i \in 1..Len(rest) : rest[i] = NL }
    IN  IF nls = {} THEN rest
        ELSE SubSeq(rest, 1, CHOOSE i \in nls : \A j \in nls : i <= j)

\* -------------------------------------------------------------- index_lines
\* The scan loop with the next line's offset one byte too far.
RECURSIVE index_loop_skew(_, _, _)
index_loop_skew(f, offset, offs) ==
    LET buf == read_line(f, offset)
        read_bytes == Len(buf)
    IN  IF ~Utf8Valid(buf) THEN offs
        ELSE IF read_bytes = 0 THEN offs
        ELSE IF chars_nth(buf, read_bytes - 1) # NL
             THEN Append(offs, offset)
        ELSE index_loop_skew(f, offset + read_bytes + 1, Append(offs, offset))

\* The scan loop of index_lines, from stream position `offset`.
RECURSIVE index_loop(_, _, _)
index_loop(f, offset, offs) ==
    LET buf == read_line(f, offset)
        read_bytes == Len(buf)
    IN  IF ~Utf8Valid(buf) THEN offs              \* `while let Ok(..)` ends
        ELSE IF read_bytes = 0 THEN offs          \* EOF
        ELSE IF chars_nth(buf, read_bytes - 1) # NL
             THEN Append(offs, offset)            \* "No EOL": break
        ELSE index_loop(f, offset + read_bytes, Append(offs, offset))

index_lines(f, start) == index_loop(f, start, <<>>)

\* -------------------------------------------------------------- consistency
Consistent == [kind |-> "Consistent", n |-> 0, lines |-> <<>>]
Inconsistent(i) == [kind |-> "Inconsistent", n |-> i, lines |-> <<>>]
IoError == [kind |-> "IoError", n |-> 0, lines |-> <<>>]
InconsistentIndex(i) == [kind |-> "InconsistentIndex", n |-> i, lines |-> <<>>]
Ok(n) == [kind |-> "Ok", n |-> n, lines |-> <<>>]
Panic == [kind |-> "Panic", n |-> 0, lines |-> <<>>]
Lines(ls) == [kind |-> "Lines", n |-> Len(ls), lines |-> ls]
NoResult == [kind |-> "none", n |-> 0, lines |-> <<>>]
\* An Option<Line>: lines is <<>> for None and <<l>> for Some(l).
Line(opt) == [kind |-> "Line", n |-> Len(opt), lines |-> opt]

\* The loop of consistency() from table index i (0-based; the loop skips 0).
RECURSIVE consistency_loop(_, _, _)
consistency_loop(offs, f, index) ==
    IF index >= Len(offs) THEN Consistent
    ELSE IF offs[index + 1] = 0 THEN Panic                 \* assert!(offset > 0)
    ELSE LET offset == offs[index + 1] - 1 IN
         IF offset > Len(f) THEN Inconsistent(index)
         ELSE IF offset = Len(f) THEN IoError              \* read_u8 at EOF
         ELSE IF f[offset + 1] # NL THEN Inconsistent(index)
         ELSE consistency_loop(offs, f, index + 1)

consistency(offs, f) == consistency_loop(offs, f, 1)

\* ------------------------------------------------------------------- update
\* update() without its consistency check.
update_unchecked(offs, f) ==
    LET offset == IF offs = <<>> THEN 0 ELSE offs[Len(offs)]
        scanned == index_lines(f, offset)
    IN  IF scanned = <<>>
        THEN [res |-> Panic, offsets |-> offs, poisoned |-> TRUE]
        ELSE [res |-> Ok(Len(offs \o Tail(scanned)) - Len(offs)),
              offsets |-> offs \o Tail(scanned), poisoned |-> FALSE]

\* update() that rebuilds the table from the start of the file.
update_rebuilding(offs, f) ==
    LET c == consistency(offs, f)
        scanned == index_lines(f, 0)
    IN  IF c.kind = "Consistent" /\ Len(scanned) >= Len(offs)
        THEN [res |-> Ok(Len(scanned) - Len(offs)), offsets |-> scanned,
              poisoned |-> FALSE]
        ELSE [res |-> IoError, offsets |-> offs, poisoned |-> FALSE]

\* update() on table offs and file f: its result, the table afterwards, and
\* whether the RwLock is left poisoned.
update(offs, f) ==
    LET c == consistency(offs, f)
        offset == IF offs = <<>> THEN 0 ELSE offs[Len(offs)]
        scanned == index_lines(f, offset)
    IN  IF c.kind = "Panic" THEN [res |-> Panic, offsets |-> offs, poisoned |-> FALSE]
        ELSE IF c.kind = "IoError" THEN [res |-> IoError, offsets |-> offs, poisoned |-> FALSE]
        ELSE IF c.kind = "Inconsistent"
             THEN [res |-> InconsistentIndex(c.n), offsets |-> offs, poisoned |-> FALSE]
        ELSE IF scanned = <<>>
             \* &offsets[1..] of an empty Vec panics while the write guard is held
             THEN [res |-> Panic, offsets |-> offs, poisoned |-> TRUE]
        ELSE [res |-> Ok(Len(offs \o Tail(scanned)) - Len(offs)),
              offsets |-> offs \o Tail(scanned), poisoned |-> FALSE]

\* update() that extends the table and then reports the failure.
update_failing_late(offs, f, fail, n) ==
    [res |-> IoError, offsets |-> update(offs, f).offsets, poisoned |-> FALSE]

\* update() when an I/O step fails.  A failing open, metadata, seek,
\* stream_position or read_u8 (n = 0) ends it with `?` before the table is
\* touched; a failing n-th read_line of the rescan only ends the
\* `while let Ok(..)` loop, and the offsets pushed so far are appended.
update_failing(offs, f, fail, n) ==
    LET c == consistency(offs, f)
        offset == IF offs = <<>> THEN 0 ELSE offs[Len(offs)]
        scanned == index_lines(f, offset)
        part == SubSeq(scanned, 1, Min(n - 1, Len(scanned)))
    IN  IF fail # "read" \/ n = 0
        THEN [res |-> IoError, offsets |-> offs, poisoned |-> FALSE]
        ELSE IF c.kind # "Consistent" THEN update(offs, f)
        ELSE IF part = <<>>
             THEN [res |-> Panic, offsets |-> offs, poisoned |-> TRUE]
        ELSE [res |-> Ok(Len(part) - 1), offsets |-> offs \o Tail(part),
              poisoned |-> FALSE]

\* --------------------------------------------------------------- read_lines
\* The bytes read_lines gets: one read_buf into Vec::with_capacity(limit) (a
\* Vec without spare capacity is grown by 64 first), or read_to_end.  The
\* spans of the model are shorter than the BufReader's buffer, so the one
\* read returns the whole span.
read_bytes_of(f, offset, limit) ==
    LET rest == From(f, offset) IN
    IF limit = None THEN rest
    ELSE SubSeq(rest, 1, Min(Len(rest), IF limit = 0 THEN 64 ELSE limit))

\* BufRead::lines over the buffer: the raw lines, then without "\n" / "\r\n".
RECURSIVE split_lines(_)
split_lines(buf) ==
    IF buf = <<>> THEN <<>>
    ELSE LET l == read_line(buf, 0) IN <<l>> \o split_lines(From(buf, Len(l)))

strip_eol(l) ==
    LET a == IF l # <<>> /\ l[Len(l)] = NL THEN SubSeq(l, 1, Len(l) - 1) ELSE l
    IN  IF a # l /\ a # <<>> /\ a[Len(a)] = CR THEN SubSeq(a, 1, Len(a) - 1) ELSE a

read_lines(f, offset, limit) ==
    LET raw == split_lines(read_bytes_of(f, offset, limit)) IN
    IF \E i \in 1..Len(raw) : ~Utf8Valid(raw[i])
    THEN <<>>                                   \* Err(..).unwrap_or_default()
    ELSE [i \in 1..Len(raw) |-> strip_eol(raw[i])]

\* LineIndexReader::lines(start..end).
lines(offs, f, start, end) ==
    IF start >= Len(offs) THEN <<>>
    ELSE LET offset == offs[start + 1]
             limit == IF end < Len(offs) /\ offs[end + 1] >= offset
                      THEN offs[end + 1] - offset ELSE None
         IN  read_lines(f, offset, limit)

\* ------------------------------------------------------------- I/O failures
\* The steps that can fail: File::open, a seek / stream_position, a read.
Failures == {"open", "seek", "read"}

\* index() when a step fails.  File::open and stream_position end it with
\* `?`; a failing n-th read_line only ends the `while let Ok(..)` loop, and
\* the offsets pushed so far are returned.
index_failing(f, fail, n) ==
    IF fail = "read"
    THEN LET full == index_lines(f, 0)
             part == SubSeq(full, 1, Min(n - 1, Len(full)))
         IN  [res |-> Ok(Len(part)), offsets |-> part, built |-> TRUE]
    ELSE [res |-> IoError, offsets |-> <<>>, built |-> FALSE]

\* lines(start..end) when a step fails: a failed open returns
\* Lines::default(), a failed seek or read goes through unwrap_or_default().
lines_failing(offs, f, start, end, fail) == <<>>

\* ---------------------------------------------------------------- LineCache
\* LineCache::new: nothing is cached.
LineCache_new == <<>>

\* Cache::get as an Option: <<>> or <<line>>.
cache_get(c, index) == IF index \in DOMAIN c THEN <<c[index]>> ELSE <<>>

\* A leading cached run that never finds a line.
cached_run_none(c, index, end) == <<>>

\* (start..end).map_while(|index| cache.get(&index)): the leading cached run.
RECURSIVE cached_run(_, _, _)
cached_run(c, index, end) ==
    IF index < end /\ index \in DOMAIN c
    THEN <<c[index]>> \o cached_run(c, index + 1, end)
    ELSE <<>>

\* u32::saturating_add / saturating_mul.  The line numbers of the model stay
\* far below u32::MAX, where the two saturate, so they are the plain sum and
\* product here.
saturating_add(x, y) == x + y
saturating_mul(x, y) == x * y

\* LineCache::lines(start..end) over cache c, table offs and file f: the lines
\* returned, the cache afterwards and the range fetched from the reader
\* (<<>> when nothing is fetched).
cache_lines(c, offs, f, start, end) ==
    LET cached_lines == cached_run(c, start, end)
        first == start + Len(cached_lines)
    IN  IF first >= end                                    \* range.is_empty()
        THEN [lines |-> cached_lines, cache |-> c, fetch |-> <<>>]
        ELSE LET len == end - start
                 pend == saturating_add(
                             end, Min(saturating_mul(len, PREFETCH_FACTOR), PREFETCH_MAX))
                 new_lines == lines(offs, f, first, pend)
                 got == { first + i - 1 : i \in 1..Min(Len(new_lines), pend - first) }
             IN  [lines |-> cached_lines
                            \o SubSeq(new_lines, 1, Min(Len(new_lines), end - first)),
                  cache |-> [k \in DOMAIN c \cup got |->
                                IF k \in got THEN new_lines[k - first + 1] ELSE c[k]],
                  fetch |-> <<first, pend>>]

\* line(index) that reads the line again on every call.
cache_line_refreshing(c, offs, f, index) ==
    LET r == cache_lines([k \in DOMAIN c \ {index} |-> c[k]], offs, f,
                         index, index + 1)
    IN  [line |-> SubSeq(r.lines, 1, Min(1, Len(r.lines))),
         cache |-> r.cache, fetch |-> r.fetch]

\* LineCache::line(index): the cached line, or the first line of
\* lines(index..index).
cache_line(c, offs, f, index) ==
    IF cache_get(c, index) # <<>>
    THEN [line |-> cache_get(c, index), cache |-> c, fetch |-> <<>>]
    ELSE LET r == cache_lines(c, offs, f, index, index) IN
         [line |-> SubSeq(r.lines, 1, Min(1, Len(r.lines))),
          cache |-> r.cache, fetch |-> r.fetch]

\* lines_opt that fetches like lines().
cache_lines_opt_fetching(c, offs, f, start, end) ==
    LET r == cache_lines(c, offs, f, start, end) IN
    [opts |-> [i \in 1..(end - start) |-> cache_get(r.cache, start + i - 1)],
     cache |-> r.cache, fetch |-> r.fetch]

\* LineCache::lines_opt(start..end): for each line of the range its cached
\* value or None; the cache afterwards and the range fetched (none).
cache_lines_opt(c, offs, f, start, end) ==
    [opts |-> [i \in 1..(end - start) |-> cache_get(c, start + i - 1)],
     cache |-> c, fetch |-> <<>>]

\* A Box<[Option<Line>]>.
LinesOpt(opts) == [kind |-> "LinesOpt", n |-> Len(opts), lines |-> opts]

\* ------------------------------------------------------- the weighted store
\* The lines a fetch can insert: "", "a" and the two bytes of U+00E9.
StoreLines == { <<>>, <<97>>, <<195, 169>> }

Max(a, b) == IF a >= b THEN a ELSE b

\* A weigher without the floor: an empty line weighs nothing.
weigher_unfloored(line) == Len(line)

\* The weigher given to Cache::builder(): the line's length in bytes,
\* at least 1 (the clamp's upper end, u32::MAX, is out of the model's reach).
weigher(line) == Max(1, Len(line))

RECURSIVE weight_of(_, _)
weight_of(c, keys) ==
    IF keys = {} THEN 0
    ELSE LET k == CHOOSE k \in keys : TRUE IN
         weigher(c[k]) + weight_of(c, keys \ {k})

\* The total weight of the entries a store holds.
total_weight(c) == weight_of(c, DOMAIN c)

\* Key k becomes the most recently used.
touch(order, k) == SelectSeq(order, LAMBDA x : x # k) \o <<k>>

\* Store c without key k.
without(c, k) == [x \in DOMAIN c \ {k} |-> c[x]]

\* An insertion that evicts nothing.
evict_none(c, order, out) == [store |-> c, recency |-> order, evicted |-> out]

\* Entries leave in least-recently-used order until the total weight is at
\* or below the capacity.
RECURSIVE evict(_, _, _)
evict(c, order, out) ==
    IF total_weight(c) <= Capacity \/ order = <<>>
    THEN [store |-> c, recency |-> order, evicted |-> out]
    ELSE evict(without(c, Head(order)), Tail(order), Append(out, Head(order)))

\* cache.insert(k, line): the entry is stored as the most recently used,
\* then the store is brought back under its capacity.
store_insert(c, order, k, line) ==
    evict([x \in DOMAIN c \cup {k} |-> IF x = k THEN line ELSE c[x]],
          touch(order, k), <<>>)

\* ------------------------------------------------------------------ actions
\* The record of a call: its arguments, the table, cache and history it
\* started from, whether it called the index reader (fetched), and the I/O
\* step that failed in it, how its try_send ended, and the kind of the event
\* it handled.
Call(op, a, b) ==
    [op |-> op, a |-> a, b |-> b, pre |-> offsets, cpre |-> cache,
     since |-> since, slen |-> slen, hist |-> hist, live |-> reader = "ready",
     fetched |-> FALSE, range |-> <<>>, fail |-> "none", send |-> "none", kind |-> "none"]

\* The record of a call on the Repository.
RepoCall(op, a, b) ==
    [op |-> op, a |-> a, b |-> b, pre |-> <<>>, cpre |-> <<>>,
     since |-> "same", slen |-> 0, hist |-> "other", live |-> reader = "ready",
     fetched |-> FALSE, range |-> <<>>, fail |-> "none", send |-> "none", kind |-> "none"]

NoCall == [op |-> "none", a |-> 0, b |-> 0, pre |-> <<>>, cpre |-> <<>>,
           since |-> "same", slen |-> 0, hist |-> "other", live |-> FALSE,
           fetched |-> FALSE, range |-> <<>>, fail |-> "none", send |-> "none", kind |-> "none"]

\* The writer appends to the file.
FileAppend ==
    /\ UNCHANGED others
    /\ \E c \in Chunks :
        /\ Len(file) + Len(c) <= MaxFileLen
        /\ file' = file \o c
        /\ since' = IF since \in {"same", "appended"} THEN "appended" ELSE "other"
        /\ hist' = IF hist = "other" THEN "other" ELSE "grown"
        /\ last' = NoCall /\ res' = NoResult
        /\ UNCHANGED <<reader, offsets, cache, slen>>

\* The writer appends a burst of BurstLen empty lines, once.
FileBurst ==
    /\ UNCHANGED others
    /\ Len(file) <= MaxFileLen
    /\ file' = file \o [i \in 1..BurstLen |-> NL]
    /\ since' = IF since \in {"same", "appended"} THEN "appended" ELSE "other"
    /\ hist' = IF hist = "other" THEN "other" ELSE "grown"
    /\ last' = NoCall /\ res' = NoResult
    /\ UNCHANGED <<reader, offsets, cache, slen>>

\* The file is truncated (set_len, log rotation).
FileTruncate ==
    /\ UNCHANGED others
    /\ \E n \in 0..(Len(file) - 1) :
        /\ file' = SubSeq(file, 1, n)
        /\ since' = IF since = "other" THEN "other"
                    ELSE IF n < slen THEN "truncated"
                    ELSE IF n = slen THEN "same" ELSE "appended"
        /\ hist' = "other"
        /\ last' = NoCall /\ res' = NoResult
        /\ UNCHANGED <<reader, offsets, cache, slen>>

\* LineIndexReader::index: a new reader over the file as it is.
LineIndexReader_index ==
    /\ UNCHANGED others
    /\ offsets' = index_lines(file, 0)
    /\ reader' = "ready"
    /\ cache' = LineCache_new             \* a LineCache wraps one reader
    /\ since' = "same" /\ slen' = Len(file)
    /\ hist' = "untouched"
    /\ last' = Call("index", 0, 0)
    /\ res' = Ok(Len(offsets'))
    /\ UNCHANGED file

LineIndexReader_update ==
    /\ UNCHANGED others
    /\ reader # "none"
    /\ last' = Call("update", 0, 0)
    /\ IF reader = "poisoned"
       THEN res' = Panic /\ UNCHANGED <<offsets, reader, since, slen>>
       ELSE LET u == update(offsets, file) IN
            /\ res' = u.res
            /\ offsets' = u.offsets
            /\ reader' = IF u.poisoned THEN "poisoned" ELSE "ready"
            /\ since' = IF u.res.kind = "Ok" THEN "same" ELSE since
            /\ slen' = IF u.res.kind = "Ok" THEN Len(file) ELSE slen
    /\ UNCHANGED <<file, cache, hist>>

LineIndexReader_consistency ==
    /\ UNCHANGED others
    /\ reader # "none"
    /\ last' = Call("consistency", 0, 0)
    /\ res' = IF reader = "poisoned" THEN Panic ELSE consistency(offsets, file)
    /\ UNCHANGED <<file, reader, offsets, cache, since, slen, hist>>

LineIndexReader_lines ==
    /\ UNCHANGED others
    /\ reader # "none"
    /\ \E a \in 0..MaxArg, b \in 0..MaxArg :
        /\ last' = Call("lines", a, b)
        /\ res' = IF reader = "poisoned" THEN Panic ELSE Lines(lines(offsets, file, a, b))
    /\ UNCHANGED <<file, reader, offsets, cache, since, slen, hist>>

\* index() with a failing I/O step; a read fails at the n-th read_line.
LineIndexReader_index_failing ==
    /\ UNCHANGED others
    /\ \E fail \in Failures, n \in 1..MaxFileLen :
        LET r == index_failing(file, fail, n) IN
        /\ IF fail = "read" THEN n <= Len(index_lines(file, 0)) ELSE n = 1
        /\ last' = [Call("index", n, 0) EXCEPT !.fail = fail]
        /\ res' = r.res
        /\ IF r.built
           THEN /\ offsets' = r.offsets
                /\ reader' = "ready"
                /\ cache' = LineCache_new
                /\ since' = "same" /\ slen' = Len(file)
                /\ hist' = "untouched"
           ELSE UNCHANGED <<offsets, reader, cache, since, slen, hist>>
    /\ UNCHANGED file

\* lines(a..b) with a failing I/O step; the file is opened only for a line
\* of the table.
LineIndexReader_lines_failing ==
    /\ UNCHANGED others
    /\ reader = "ready"
    /\ \E a \in 0..MaxArg, b \in 0..MaxArg, fail \in Failures :
        /\ a < Len(offsets)
        /\ last' = [Call("lines", a, b) EXCEPT !.fail = fail]
        /\ res' = Lines(lines_failing(offsets, file, a, b, fail))
    /\ UNCHANGED <<file, reader, offsets, cache, since, slen, hist>>

\* LineCache::line(n).  A lookup that reaches a poisoned reader panics.
LineCache_line ==
    /\ UNCHANGED others
    /\ reader # "none"
    /\ \E n \in 0..MaxArg :
        LET r == cache_line(cache, offsets, file, n) IN
        /\ last' = [Call("cache_line", n, n) EXCEPT !.fetched = r.fetch # <<>>,
                                                  !.range = r.fetch]
        /\ IF reader = "poisoned" /\ r.fetch # <<>>
           THEN res' = Panic /\ cache' = cache
           ELSE res' = Line(r.line) /\ cache' = r.cache
    /\ UNCHANGED <<file, reader, offsets, since, slen, hist>>

\* LineCache::lines(a..b).
LineCache_lines ==
    /\ UNCHANGED others
    /\ reader # "none"
    /\ \E a \in 0..MaxArg, b \in 0..MaxArg :
        LET r == cache_lines(cache, offsets, file, a, b) IN
        /\ last' = [Call("cache_lines", a, b) EXCEPT !.fetched = r.fetch # <<>>,
                                                  !.range = r.fetch]
        /\ IF reader = "poisoned" /\ r.fetch # <<>>
           THEN res' = Panic /\ cache' = cache
           ELSE res' = Lines(r.lines) /\ cache' = r.cache
    /\ UNCHANGED <<file, reader, offsets, since, slen, hist>>

\* LineCache::lines(a..WideEnd), a range wide enough for the prefetch cap.
LineCache_lines_wide ==
    /\ UNCHANGED others
    /\ reader # "none"
    /\ \E a \in 0..MaxArg :
        LET r == cache_lines(cache, offsets, file, a, WideEnd) IN
        /\ last' = [Call("cache_lines", a, WideEnd) EXCEPT !.fetched = r.fetch # <<>>,
                                                          !.range = r.fetch]
        /\ IF reader = "poisoned" /\ r.fetch # <<>>
           THEN res' = Panic /\ cache' = cache
           ELSE res' = Lines(r.lines) /\ cache' = r.cache
    /\ UNCHANGED <<file, reader, offsets, since, slen, hist>>

\* LineCache::lines_opt(a..b).
LineCache_lines_opt ==
    /\ UNCHANGED others
    /\ reader # "none"
    /\ \E a \in 0..MaxArg, b \in 0..MaxArg :
        LET r == cache_lines_opt(cache, offsets, file, a, b) IN
        /\ last' = [Call("lines_opt", a, b) EXCEPT !.fetched = r.fetch # <<>>,
                                                  !.range = r.fetch]
        /\ IF reader = "poisoned" /\ r.fetch # <<>>
           THEN res' = Panic /\ cache' = cache
           ELSE res' = LinesOpt(r.opts) /\ cache' = r.cache
    /\ UNCHANGED <<file, reader, offsets, since, slen, hist>>

\* cache.insert(k, line), one of the insertions of LineCache::lines.
Store_insert ==
    /\ \E k \in 0..MaxArg, line \in StoreLines :
        LET r == store_insert(store, recency, k, line) IN
        /\ store' = r.store
        /\ recency' = r.recency
        /\ evicted' = r.evicted
    /\ UNCHANGED <<ixVars, repoVars, concVars, monVars, uiVars>>

\* cache.get(&k): a hit makes the entry the most recently used.
Store_get ==
    /\ \E k \in DOMAIN store :
        /\ recency' = touch(recency, k)
        /\ evicted' = <<>>
    /\ UNCHANGED <<store, ixVars, repoVars, concVars, monVars, uiVars>>

\* ------------------------------------------------------------ the Repository
\* One file name is watched; its Entry is (reader, offsets, cache, updated),
\* and reader = "none" when the map has no entry for it.
EventKinds == {"Created", "Modified", "Removed"}

Event(kind, id) == [kind |-> kind, id |-> id, from |-> 0, to |-> 0, stale |-> FALSE]

\* A LinesRequest (line_cache, from, to); stale when its cache is no longer
\* the cache of the map's entry.
Request(from, to) == [kind |-> "Request", id |-> 0, from |-> from, to |-> to, stale |-> FALSE]

NoEvent == [kind |-> "none", id |-> 0, from |-> 0, to |-> 0, stale |-> FALSE]

\* The queued requests once the entry they were made for left the map.
detach(reqs) == [i \in 1..Len(reqs) |-> [reqs[i] EXCEPT !.stale = TRUE]]

\* A worker that starts a handler whatever it is doing.
worker_free_always == worker # "panicked"

\* The worker is back in select!: the handler of the arm it took last has
\* been awaited to its end.
worker_free == worker = "idle"

\* entries.get_mut(&name) is held across entry.reader.update().await.
entry_locked == worker = "event" /\ cur.kind = "Modified" /\ reader # "none"

\* lines_sender.try_send(req): "closed" once the worker and its receiver are
\* gone, "full" at capacity.
try_send(reqs, req) ==
    IF worker = "panicked" THEN [queue |-> reqs, outcome |-> "closed"]
    ELSE IF Len(reqs) >= QueueCapacity THEN [queue |-> reqs, outcome |-> "full"]
    ELSE [queue |-> Append(reqs, req), outcome |-> "ok"]

\* lines.iter().map_while(Clone::clone): the leading run of cached lines.
RECURSIVE leading(_)
leading(opts) ==
    IF opts = <<>> \/ Head(opts) = <<>> THEN <<>>
    ELSE Head(opts) \o leading(Tail(opts))

\* The windows the rendering thread asks for: an empty one, and the lines
\* up to the largest line number.
Windows == { <<0, 0>>, <<0, MaxArg>> }

\* A Vec<FileInfo>.
List(infos) == [kind |-> "List", n |-> Len(infos), lines |-> infos]

\* An entry that stays in the map.
entries_remove_kept(e) == e

\* entries.remove(&name).
entries_remove(e) == [reader |-> "none", offsets |-> <<>>, cache |-> <<>>, updated |-> 0]

\* The monitor emits an event for the file.
Monitor_emit ==
    /\ worker # "panicked"
    /\ emitted < MaxEvents /\ Len(events) < MaxPending
    /\ \E kind \in EventKinds :
        events' = Append(events, Event(kind, emitted + 1))
    /\ emitted' = emitted + 1
    /\ last' = NoCall /\ res' = NoResult
    /\ UNCHANGED <<file, reader, offsets, cache, since, slen, hist, storeVars, monVars, uiVars, concVars,
                   requests, worker, cur, inflight, done, removed, updated, stuck>>

\* select!: Some(event) = monitor.next_message().
Worker_take_event ==
    /\ worker_free
    /\ events # <<>>
    /\ cur' = Head(events)
    /\ events' = Tail(events)
    /\ worker' = "event"
    /\ inflight' = inflight + 1
    /\ last' = NoCall /\ res' = NoResult
    /\ UNCHANGED <<file, reader, offsets, cache, since, slen, hist, storeVars, monVars, uiVars, concVars,
                   emitted, requests, done, removed, updated, stuck>>

\* select!: Some((line_cache, from, to)) = lines_request.recv().
Worker_take_request ==
    /\ worker_free
    /\ requests # <<>>
    /\ cur' = Head(requests)
    /\ requests' = Tail(requests)
    /\ worker' = "request"
    /\ inflight' = inflight + 1
    /\ last' = NoCall /\ res' = NoResult
    /\ UNCHANGED <<file, reader, offsets, cache, since, slen, hist, storeVars, monVars, uiVars, concVars,
                   events, emitted, done, removed, updated, stuck>>

\* handle_event(event, &file_entries).await, to its end.
Worker_handle_event ==
    /\ worker = "event"
    /\ last' = [RepoCall("handle_event", cur.id, 0) EXCEPT !.kind = cur.kind]
    /\ cur' = NoEvent
    /\ CASE cur.kind = "Created" ->
            \E fail \in {"none", "open"} :
                IF fail = "none"
                THEN /\ offsets' = index_lines(file, 0)
                     /\ reader' = "ready"
                     /\ cache' = LineCache_new
                     /\ updated' = cur.id
                     /\ requests' = detach(requests)
                     /\ since' = "same" /\ slen' = Len(file) /\ hist' = "untouched"
                     /\ res' = Ok(Len(offsets'))
                     /\ worker' = "idle" /\ inflight' = inflight - 1
                     /\ done' = done + 1 /\ removed' = FALSE
                ELSE /\ res' = index_failing(file, fail, 1).res
                     /\ worker' = "idle" /\ inflight' = inflight - 1
                     /\ done' = done + 1
                     /\ UNCHANGED <<offsets, reader, cache, updated, requests,
                                    since, slen, hist, removed>>
         [] cur.kind = "Modified" /\ reader = "none" ->
            /\ res' = NoResult
            /\ worker' = "idle" /\ inflight' = inflight - 1
            /\ done' = done + 1
            /\ UNCHANGED <<offsets, reader, cache, updated, requests,
                           since, slen, hist, removed>>
         [] cur.kind = "Modified" /\ reader # "none" ->
            LET u == IF reader = "poisoned"
                     THEN [res |-> Panic, offsets |-> offsets, poisoned |-> TRUE]
                     ELSE update(offsets, file)
            IN  /\ res' = u.res
                /\ offsets' = u.offsets
                /\ reader' = IF u.poisoned THEN "poisoned" ELSE reader
                /\ updated' = IF u.res.kind = "Ok" THEN cur.id ELSE updated
                /\ since' = IF u.res.kind = "Ok" THEN "same" ELSE since
                /\ slen' = IF u.res.kind = "Ok" THEN Len(file) ELSE slen
                /\ IF u.res = Panic
                   THEN worker' = "panicked" /\ inflight' = 0 /\ done' = done
                   ELSE /\ worker' = "idle" /\ inflight' = inflight - 1
                        /\ done' = done + 1
                /\ UNCHANGED <<cache, requests, hist, removed>>
         [] cur.kind = "Removed" ->
            LET e == entries_remove([reader |-> reader, offsets |-> offsets,
                                     cache |-> cache, updated |-> updated])
            IN  /\ reader' = e.reader /\ offsets' = e.offsets
                /\ cache' = e.cache /\ updated' = e.updated
                /\ requests' = IF e.reader = "none" THEN detach(requests) ELSE requests
                /\ res' = NoResult
                /\ worker' = "idle" /\ inflight' = inflight - 1
                /\ done' = done + 1 /\ removed' = TRUE
                /\ UNCHANGED <<since, slen, hist>>
    /\ stuck' = IF cur.kind = "Removed" \/ (cur.kind = "Created" /\ res'.kind = "Ok")
                THEN FALSE
                ELSE IF res'.kind = "InconsistentIndex" THEN TRUE ELSE stuck
    /\ UNCHANGED <<file, storeVars, monVars, uiVars, concVars, events, emitted>>

\* handle_event for a Modified event whose update() meets a failing I/O step:
\* n = 0 for a step of the consistency check or the open and seek after it,
\* n >= 1 for the n-th read_line of the rescan.
Worker_handle_event_failing ==
    /\ worker = "event" /\ cur.kind = "Modified" /\ reader = "ready"
    /\ \E fail \in Failures, n \in 0..MaxFileLen :
        LET u == update_failing(offsets, file, fail, n) IN
        /\ IF fail = "read" /\ n = 0
           THEN Len(offsets) >= 2 /\ offsets[2] - 1 < Len(file)
           ELSE IF fail = "read"
           THEN /\ consistency(offsets, file).kind = "Consistent"
                /\ n >= 1
                /\ n <= Len(index_lines(file, IF offsets = <<>> THEN 0
                                               ELSE offsets[Len(offsets)]))
           ELSE n = 0
        /\ last' = [RepoCall("handle_event", cur.id, 0)
                       EXCEPT !.kind = cur.kind, !.fail = fail]
        /\ res' = u.res
        /\ offsets' = u.offsets
        /\ reader' = IF u.poisoned THEN "poisoned" ELSE reader
        /\ updated' = IF u.res.kind = "Ok" THEN cur.id ELSE updated
        /\ since' = IF u.res.kind = "Ok" THEN "same" ELSE since
        /\ slen' = IF u.res.kind = "Ok" THEN Len(file) ELSE slen
        /\ IF u.res = Panic
           THEN worker' = "panicked" /\ inflight' = 0 /\ done' = done
           ELSE /\ worker' = "idle" /\ inflight' = inflight - 1
                /\ done' = done + 1
    /\ cur' = NoEvent
    /\ UNCHANGED <<file, cache, requests, hist, removed, stuck,
                   storeVars, monVars, uiVars, concVars, events, emitted>>

\* A request handler that brings the index up to date before it fetches.
Worker_handle_request_updating ==
    /\ worker = "request"
    /\ last' = [RepoCall("fetch", cur.from, cur.to) EXCEPT !.kind = cur.kind]
    /\ res' = NoResult
    /\ offsets' = IF reader = "ready" THEN update_unchecked(offsets, file).offsets
                  ELSE offsets
    /\ cache' = IF cur.stale THEN cache
                ELSE cache_lines(cache, offsets', file, cur.from, cur.to).cache
    /\ cur' = NoEvent
    /\ worker' = "idle"
    /\ inflight' = inflight - 1
    /\ UNCHANGED <<file, reader, since, slen, hist, storeVars, monVars, uiVars, concVars,
                   events, emitted, requests, done, removed, updated, stuck>>

\* line_cache.lines(from..to).await for the request taken; a stale request
\* fills a cache no entry holds.
Worker_handle_request ==
    /\ worker = "request"
    /\ last' = [RepoCall("fetch", cur.from, cur.to) EXCEPT !.kind = cur.kind]
    /\ res' = NoResult
    /\ cache' = IF cur.stale THEN cache
                ELSE cache_lines(cache, offsets, file, cur.from, cur.to).cache
    /\ cur' = NoEvent
    /\ worker' = "idle"
    /\ inflight' = inflight - 1
    /\ UNCHANGED <<file, reader, offsets, since, slen, hist, storeVars, monVars, uiVars, concVars,
                   events, emitted, requests, done, removed, updated, stuck>>

\* Repository::lines(name, from, to) on the rendering thread.
Repository_lines ==
    /\ ~entry_locked
    /\ \E w \in Windows :
        LET from == w[1]
            to == w[2]
        IN
        IF reader = "none"
        THEN /\ last' = RepoCall("repo_lines", from, to)
             /\ res' = Lines(<<>>)
             /\ requests' = requests
        ELSE LET opts == cache_lines_opt(cache, offsets, file, from, to).opts
                 gap == \E i \in 1..Len(opts) : opts[i] = <<>>
                 s == try_send(requests, Request(from, to))
             IN  /\ last' = [RepoCall("repo_lines", from, to)
                                EXCEPT !.send = IF gap THEN s.outcome ELSE "none"]
                 /\ requests' = IF gap THEN s.queue ELSE requests
                 /\ res' = IF gap /\ s.outcome # "ok"
                           THEN Panic              \* try_send(..).unwrap()
                           ELSE Lines(leading(opts))
    /\ UNCHANGED <<file, reader, offsets, cache, since, slen, hist, storeVars, monVars, uiVars, concVars,
                   events, emitted, worker, cur, inflight, done, removed, updated, stuck>>

\* Repository::total(name).
Repository_total ==
    /\ ~entry_locked
    /\ last' = RepoCall("repo_total", 0, 0)
    /\ res' = IF reader = "none" THEN Ok(0)
              ELSE IF reader = "poisoned" THEN Panic
              ELSE Ok(Len(offsets))
    /\ UNCHANGED <<file, reader, offsets, cache, since, slen, hist, storeVars, monVars, uiVars, repoVars, concVars>>

\* Repository::list().
Repository_list ==
    /\ ~entry_locked
    /\ last' = RepoCall("repo_list", 0, 0)
    /\ res' = IF reader = "none" THEN List(<<>>)
              ELSE IF reader = "poisoned" THEN Panic
              ELSE List(<<[number_of_lines |-> Len(offsets), last_update |-> updated]>>)
    /\ UNCHANGED <<file, reader, offsets, cache, since, slen, hist, storeVars, monVars, uiVars, repoVars, concVars>>

\* ---------------------------------------------------------------- Monitor
\* One path of the watched directory.  A File the Monitor keeps open stays
\* on the file it was opened on, also after the path was removed and
\* created again.
NoFile == [inode |-> 0, pos |-> 0]

\* The kinds of notify::Event the handler is called with.
NotifyKinds == {"Access", "Create", "Modify", "Remove"}

\* monitor::Event for the path, by kind.
Created == [kind |-> "Created", line |-> <<>>]
NewLine(line) == [kind |-> "NewLine", line |-> line]
Removed == [kind |-> "Removed", line |-> <<>>]

\* buf.lines() as events: one NewLine per line read, up to the first line
\* that is not UTF-8 (map_while(Result::ok)).
new_lines(buf) ==
    LET raw == split_lines(buf)
        bad == { i \in 1..Len(raw) : ~Utf8Valid(raw[i]) }
        n == IF bad = {} THEN Len(raw)
             ELSE (CHOOSE i \in bad : \A j \in bad : i <= j) - 1
    IN  [i \in 1..n |-> NewLine(strip_eol(raw[i]))]

\* read_dir_content: every line of the file found under the path is sent as
\* a NewLine event and the File is kept, read to its end; a line that is
\* not UTF-8 ends Monitor::create with an error.
read_dir_content(d) ==
    IF ~d.exists THEN [events |-> <<>>, files |-> NoFile, ok |-> TRUE]
    ELSE LET buf == d.inodes[Len(d.inodes)]
             raw == split_lines(buf)
         IN  IF \E i \in 1..Len(raw) : ~Utf8Valid(raw[i])
             THEN [events |-> new_lines(buf), files |-> NoFile, ok |-> FALSE]
             ELSE [events |-> new_lines(buf),
                   files |-> [inode |-> Len(d.inodes), pos |-> Len(buf)],
                   ok |-> TRUE]

\* event_handler(files, path, kind): the events to send and the map
\* afterwards.
event_handler(d, fl, kind) ==
    CASE kind = "Access" -> [events |-> <<>>, files |-> fl]
      [] kind = "Create" ->
            IF ~d.exists THEN [events |-> <<>>, files |-> fl]
            ELSE [events |-> <<Created>>,
                  files |-> [inode |-> Len(d.inodes), pos |-> 0]]
      [] kind = "Modify" ->
            IF ~d.exists THEN [events |-> <<>>, files |-> fl]
            ELSE LET f == IF fl = NoFile
                          THEN [inode |-> Len(d.inodes), pos |-> 0]  \* or_insert_with
                          ELSE fl
                     content == d.inodes[f.inode]
                 IN  [events |-> new_lines(From(content, f.pos)),
                      files |-> [f EXCEPT !.pos = Max(f.pos, Len(content))]]
      [] kind = "Remove" ->
            IF d.exists THEN [events |-> <<>>, files |-> fl]
            ELSE [events |-> <<Removed>>, files |-> NoFile]

\* The watcher reports a change of the path once it is set up.
notify(kind) == IF watching THEN Append(notified, kind) ELSE notified

\* A file is created under the path.
Fs_create ==
    /\ ~dir.exists /\ Len(dir.inodes) < MaxInodes
    /\ Len(notified) < MaxNotified
    /\ dir' = [exists |-> TRUE, inodes |-> Append(dir.inodes, <<>>)]
    /\ notified' = notify("Create")
    /\ UNCHANGED <<files, tx, watching, mhist, ixVars, storeVars, repoVars, concVars, uiVars>>

\* The writer appends to the file under the path.
Fs_write ==
    /\ dir.exists /\ Len(notified) < MaxNotified
    /\ \E c \in Chunks :
        LET i == Len(dir.inodes) IN
        /\ Len(dir.inodes[i]) + Len(c) <= MaxDirLen
        /\ dir' = [dir EXCEPT !.inodes[i] = @ \o c]
    /\ notified' = notify("Modify")
    /\ UNCHANGED <<files, tx, watching, mhist, ixVars, storeVars, repoVars, concVars, uiVars>>

\* The file under the path is removed.
Fs_remove ==
    /\ dir.exists /\ Len(notified) < MaxNotified
    /\ dir' = [dir EXCEPT !.exists = FALSE]
    /\ notified' = notify("Remove")
    /\ UNCHANGED <<files, tx, watching, mhist, ixVars, storeVars, repoVars, concVars, uiVars>>

\* The file under the path is opened, read or closed by someone.
Fs_access ==
    /\ dir.exists /\ watching /\ Len(notified) < MaxNotified
    /\ notified' = notify("Access")
    /\ UNCHANGED <<dir, files, tx, watching, mhist, ixVars, storeVars, repoVars, concVars, uiVars>>

\* Monitor::create: read_dir_content, then the watcher is set up.
Monitor_create ==
    /\ ~watching
    /\ LET r == read_dir_content(dir) IN
        /\ r.ok
        /\ tx' = r.events
        /\ files' = r.files
        /\ mhist' = [start |-> dir.exists, boot |-> Len(r.events),
                     kind |-> "none", n |-> 0]
    /\ watching' = TRUE
    /\ UNCHANGED <<dir, notified, ixVars, storeVars, repoVars, concVars, uiVars>>

\* The watcher's handler runs for the oldest notify event and sends what
\* event_handler returns.
Notify_handler ==
    /\ watching /\ notified # <<>>
    /\ LET r == event_handler(dir, files, Head(notified)) IN
        /\ tx' = tx \o r.events
        /\ files' = r.files
        /\ mhist' = [mhist EXCEPT !.kind = Head(notified), !.n = Len(r.events)]
    /\ notified' = Tail(notified)
    /\ UNCHANGED <<dir, watching, ixVars, storeVars, repoVars, concVars, uiVars>>

\* ------------------------------------------------- update() beside a reader
\* One update() and one len() / lines() run on the same LineIndexReader from
\* two tasks; a step is one acquisition of the RwLock or one pass over the
\* file.

\* An append that makes each new offset visible on its own.
extend_each(offs, new) ==
    IF new = <<>> THEN <<offs>>
    ELSE [i \in 1..Len(new) |-> offs \o SubSeq(new, 1, i)]

\* self.offsets.write().unwrap().extend(new): the tables a reader can find
\* while the new offsets are appended.  The write guard is held for the
\* whole extend, so only the extended table is ever found.
extend(offs, new) == << offs \o new >>

\* The tables that are entirely without or entirely with the offsets of the
\* update in flight.
whole ==
    IF upc \in {"scanned", "extended"} /\ uscan # <<>>
    THEN {ubase, ubase \o Tail(uscan)}
    ELSE {offsets}

NoRange == [a |-> 0, b |-> 0, off |-> 0, lim |-> None]

\* LineIndexReader::index while no call is in flight on the old reader.
Conc_index ==
    /\ upc = "idle" /\ rpc = "idle"
    /\ LineIndexReader_index

\* update(): self.consistency().await?.
Update_check ==
    /\ reader = "ready" /\ upc = "idle"
    /\ LET c == consistency(offsets, file) IN
        IF c.kind = "Consistent"
        THEN upc' = "checked" /\ last' = NoCall /\ res' = NoResult
        ELSE /\ upc' = "idle"
             /\ last' = RepoCall("conc_update", 0, 0)
             /\ res' = IF c.kind = "Inconsistent" THEN InconsistentIndex(c.n) ELSE c
    /\ UNCHANGED <<file, reader, offsets, cache, since, slen, hist, storeVars, monVars, uiVars, repoVars,
                   uold, uoff, uscan, ubase, uk, rpc, rq, rtabs, upd2>>

\* update(): let old_len = self.offsets.read().unwrap().len().
Update_old_len ==
    /\ reader = "ready" /\ upc = "checked"
    /\ uold' = Len(offsets)
    /\ upc' = "len"
    /\ last' = NoCall /\ res' = NoResult
    /\ UNCHANGED <<file, reader, offsets, cache, since, slen, hist, storeVars, monVars, uiVars, repoVars,
                   uoff, uscan, ubase, uk, rpc, rq, rtabs, upd2>>

\* update(): let offset = ...last().copied().unwrap_or_default().
Update_offset ==
    /\ reader = "ready" /\ upc = "len"
    /\ uoff' = IF offsets = <<>> THEN 0 ELSE offsets[Len(offsets)]
    /\ upc' = "offset"
    /\ last' = NoCall /\ res' = NoResult
    /\ UNCHANGED <<file, reader, offsets, cache, since, slen, hist, storeVars, monVars, uiVars, repoVars,
                   uold, uscan, ubase, uk, rpc, rq, rtabs, upd2>>

\* update(): open, seek, index_lines(file).
Update_scan ==
    /\ reader # "none" /\ upc = "offset"
    /\ uscan' = index_lines(file, uoff)
    /\ ubase' = offsets
    /\ uk' = 0
    /\ upc' = "scanned"
    /\ rtabs' = IF rpc # "idle" /\ uscan' # <<>>
                THEN rtabs \cup {offsets \o Tail(uscan')} ELSE rtabs
    /\ last' = NoCall /\ res' = NoResult
    /\ UNCHANGED <<file, reader, offsets, cache, since, slen, hist, storeVars, monVars, uiVars, repoVars,
                   uold, uoff, rpc, rq, upd2>>

\* update(): self.offsets.write().unwrap().extend(&offsets[1..]).
Update_extend ==
    /\ reader = "ready" /\ upc = "scanned"
    /\ IF uscan = <<>>
       THEN \* &offsets[1..] of an empty Vec panics while the write guard is held
            /\ reader' = "poisoned"
            /\ upc' = "idle"
            /\ last' = RepoCall("conc_update", 0, 0) /\ res' = Panic
            /\ UNCHANGED <<offsets, uk, ubase>>
       ELSE LET base == IF uk = 0 THEN offsets ELSE ubase   \* the Vec under the guard
                vis == extend(base, Tail(uscan))
            IN  /\ offsets' = vis[uk + 1]
                /\ ubase' = base
                /\ uk' = uk + 1
                /\ upc' = IF uk + 1 = Len(vis) THEN "extended" ELSE "scanned"
                /\ last' = NoCall /\ res' = NoResult
                /\ UNCHANGED reader
    /\ UNCHANGED <<file, cache, since, slen, hist, storeVars, monVars, uiVars, repoVars,
                   uold, uoff, uscan, rpc, rq, rtabs, upd2>>

\* update(): Ok(len - old_len).
Update_result ==
    /\ reader = "ready" /\ upc = "extended"
    /\ upc' = "idle"
    /\ last' = RepoCall("conc_update", 0, 0)
    /\ res' = Ok(Max(0, Len(offsets) - uold))
    /\ since' = "other"
    /\ UNCHANGED <<file, reader, offsets, cache, slen, hist, storeVars, monVars, uiVars, repoVars,
                   uold, uoff, uscan, ubase, uk, rpc, rq, rtabs, upd2>>

\* len() on the other task.
Reader_len ==
    /\ reader = "ready" /\ rpc = "idle"
    /\ last' = RepoCall("conc_len", 0, 0)
    /\ res' = Ok(Len(offsets))
    /\ rtabs' = whole
    /\ UNCHANGED <<file, reader, offsets, cache, since, slen, hist, storeVars, monVars, uiVars, repoVars,
                   upc, uold, uoff, uscan, ubase, uk, rpc, rq, upd2>>

\* lines(a..b): self.offsets.read().unwrap().get(start).
Reader_lines_start ==
    /\ reader = "ready" /\ rpc = "idle"
    /\ rtabs' = whole
    /\ \E a \in 0..MaxArg, b \in 0..MaxArg :
        IF a >= Len(offsets)
        THEN /\ last' = RepoCall("conc_lines", a, b)
             /\ res' = Lines(<<>>)
             /\ UNCHANGED <<rpc, rq>>
        ELSE /\ rq' = [a |-> a, b |-> b, off |-> offsets[a + 1], lim |-> None]
             /\ rpc' = "start"
             /\ last' = NoCall /\ res' = NoResult
    /\ UNCHANGED <<file, reader, offsets, cache, since, slen, hist, storeVars, monVars, uiVars, repoVars,
                   upc, uold, uoff, uscan, ubase, uk, upd2>>

\* lines(a..b): self.offsets.read().unwrap().get(end), checked_sub(offset).
Reader_lines_end ==
    /\ reader # "none" /\ rpc = "start"
    /\ IF reader = "poisoned"
       THEN /\ last' = RepoCall("conc_lines", rq.a, rq.b) /\ res' = Panic
            /\ rpc' = "idle" /\ rq' = NoRange
            /\ UNCHANGED rtabs
       ELSE /\ rq' = [rq EXCEPT !.lim = IF rq.b < Len(offsets) /\ offsets[rq.b + 1] >= rq.off
                                        THEN offsets[rq.b + 1] - rq.off ELSE None]
            /\ rpc' = "end"
            /\ rtabs' = rtabs \cup whole
            /\ last' = NoCall /\ res' = NoResult
    /\ UNCHANGED <<file, reader, offsets, cache, since, slen, hist, storeVars, monVars, uiVars, repoVars,
                   upc, uold, uoff, uscan, ubase, uk, upd2>>

\* lines(a..b): File::open, read_lines(file, offset, limit).
Reader_lines_read ==
    /\ rpc = "end"
    /\ last' = RepoCall("conc_lines", rq.a, rq.b)
    /\ res' = Lines(read_lines(file, rq.off, rq.lim))
    /\ rpc' = "idle" /\ rq' = NoRange
    /\ UNCHANGED <<file, reader, offsets, cache, since, slen, hist, storeVars, monVars, uiVars, repoVars,
                   upc, uold, uoff, uscan, ubase, uk, rtabs, upd2>>

\* ------------------------------------------------ update() beside update()
\* Two update() calls run on the same LineIndexReader from two tasks
\* (update takes &self and the table sits behind an RwLock); the second one
\* passes the same steps as the first.
NoUpdate == [pc |-> "idle", old |-> 0, off |-> 0, scan |-> <<>>]

\* LineIndexReader::index while no update() is in flight on the old reader.
Conc2_index ==
    /\ upc = "idle" /\ upd2.pc = "idle"
    /\ LineIndexReader_index

\* The second update(): self.consistency().await?.
Update2_check ==
    /\ reader = "ready" /\ upd2.pc = "idle"
    /\ LET c == consistency(offsets, file) IN
        IF c.kind = "Consistent"
        THEN /\ upd2' = [NoUpdate EXCEPT !.pc = "checked"]
             /\ last' = NoCall /\ res' = NoResult
        ELSE /\ upd2' = NoUpdate
             /\ last' = RepoCall("conc_update2", 0, 0)
             /\ res' = IF c.kind = "Inconsistent" THEN InconsistentIndex(c.n) ELSE c
    /\ UNCHANGED <<file, reader, offsets, cache, since, slen, hist, storeVars, monVars, uiVars, repoVars,
                   upc, uold, uoff, uscan, ubase, uk, rpc, rq, rtabs>>

\* The second update(): let old_len = self.offsets.read().unwrap().len().
Update2_old_len ==
    /\ reader = "ready" /\ upd2.pc = "checked"
    /\ upd2' = [upd2 EXCEPT !.pc = "len", !.old = Len(offsets)]
    /\ last' = NoCall /\ res' = NoResult
    /\ UNCHANGED <<file, reader, offsets, cache, since, slen, hist, storeVars, monVars, uiVars, repoVars,
                   upc, uold, uoff, uscan, ubase, uk, rpc, rq, rtabs>>

\* The second update(): let offset = ...last().copied().unwrap_or_default().
Update2_offset ==
    /\ reader = "ready" /\ upd2.pc = "len"
    /\ upd2' = [upd2 EXCEPT !.pc = "offset",
                            !.off = IF offsets = <<>> THEN 0 ELSE offsets[Len(offsets)]]
    /\ last' = NoCall /\ res' = NoResult
    /\ UNCHANGED <<file, reader, offsets, cache, since, slen, hist, storeVars, monVars, uiVars, repoVars,
                   upc, uold, uoff, uscan, ubase, uk, rpc, rq, rtabs>>

\* The second update(): open, seek, index_lines(file).
Update2_scan ==
    /\ upd2.pc = "offset"
    /\ upd2' = [upd2 EXCEPT !.pc = "scanned", !.scan = index_lines(file, upd2.off)]
    /\ last' = NoCall /\ res' = NoResult
    /\ UNCHANGED <<file, reader, offsets, cache, since, slen, hist, storeVars, monVars, uiVars, repoVars,
                   upc, uold, uoff, uscan, ubase, uk, rpc, rq, rtabs>>

\* The second update(): self.offsets.write().unwrap().extend(&offsets[1..]).
Update2_extend ==
    /\ reader = "ready" /\ upd2.pc = "scanned"
    /\ IF upd2.scan = <<>>
       THEN /\ reader' = "poisoned"
            /\ upd2' = [upd2 EXCEPT !.pc = "idle"]
            /\ last' = RepoCall("conc_update2", 0, 0) /\ res' = Panic
            /\ UNCHANGED offsets
       ELSE /\ offsets' = offsets \o Tail(upd2.scan)
            /\ upd2' = [upd2 EXCEPT !.pc = "extended"]
            /\ last' = NoCall /\ res' = NoResult
            /\ UNCHANGED reader
    /\ UNCHANGED <<file, cache, since, slen, hist, storeVars, monVars, uiVars, repoVars,
                   upc, uold, uoff, uscan, ubase, uk, rpc, rq, rtabs>>

\* The second update(): Ok(len - old_len).
Update2_result ==
    /\ reader = "ready" /\ upd2.pc = "extended"
    /\ upd2' = [upd2 EXCEPT !.pc = "idle"]
    /\ last' = RepoCall("conc_update2", 0, 0)
    /\ res' = Ok(Max(0, Len(offsets) - upd2.old))
    /\ since' = "other"
    /\ UNCHANGED <<file, reader, offsets, cache, slen, hist, storeVars, monVars, uiVars, repoVars,
                   upc, uold, uoff, uscan, ubase, uk, rpc, rq, rtabs>>

\* An update() that comes to a lock of the table after the other update()
\* poisoned it: .read().unwrap() / .write().unwrap() panics.
Update_on_poisoned ==
    /\ reader = "poisoned"
    /\ \/ /\ upc \in {"checked", "len", "scanned", "extended"}
          /\ upc' = "idle" /\ UNCHANGED upd2
          /\ last' = RepoCall("conc_update", 0, 0)
       \/ /\ upd2.pc \in {"checked", "len", "scanned", "extended"}
          /\ upd2' = [upd2 EXCEPT !.pc = "idle"] /\ UNCHANGED upc
          /\ last' = RepoCall("conc_update2", 0, 0)
    /\ res' = Panic
    /\ UNCHANGED <<file, reader, offsets, cache, since, slen, hist, storeVars, monVars, uiVars, repoVars,
                   uold, uoff, uscan, ubase, uk, rpc, rq, rtabs>>

\* ------------------------------------------------------- the file list widget
\* A FileInfo is [name, last_update, number_of_lines]; names are numbers
\* whose order is the order of the names, times are numbers.
FileInfos == [name : 1..MaxFiles, last_update : 0..MaxStamp, number_of_lines : 0..MaxStamp]

\* The lists Repository::list() can return: the entries of the map in the
\* order its iterator yields them, no name twice.
Listings ==
    UNION { { l \in [1..n -> FileInfos] : \A i, j \in 1..n : i # j => l[i].name # l[j].name }
            : n \in 0..MaxFiles }

\* The keys handle_key_event knows, and one it does not.
SortKeys == {"n", "N", "l", "L", "a", "A"}
Keys == SortKeys \cup {"Up", "Down", "Enter", "x"}

\* DefaultHasher over the Vec<FileInfo>: equal lists have equal hashes, and
\* the lists of the model are taken to have different hashes, all of them
\* different from the 0 of FileListState::default().
hash_of(infos) == <<infos>>

\* FileListState::default(): hash 0, nothing listed, SortColumn::Name,
\* SortDirection::Ascending, TableState::default() (nothing selected).
FileListState_default ==
    [hash |-> <<>>, sorted_list |-> <<>>, sort_column |-> "Name",
     sort_direction |-> "Ascending", selected |-> None]

\* cmp_by_name, cmp_by_age (last_update reversed) and cmp_by_line_count as a
\* sort key.
cmp_key(info, column) ==
    CASE column = "Name" -> info.name
      [] column = "Age" -> 0 - info.last_update
      [] column = "LineCount" -> info.number_of_lines

\* One insertion of the stable sort: x goes behind the elements that do not
\* compare greater.
RECURSIVE insert_sorted(_, _, _)
insert_sorted(s, x, column) ==
    IF s = <<>> THEN <<x>>
    ELSE IF cmp_key(Head(s), column) <= cmp_key(x, column)
         THEN <<Head(s)>> \o insert_sorted(Tail(s), x, column)
    ELSE <<x>> \o s

\* files.into_iter().sorted_by(cmp): a stable sort.
RECURSIVE sorted_by(_, _)
sorted_by(infos, column) ==
    IF infos = <<>> THEN <<>>
    ELSE insert_sorted(sorted_by(SubSeq(infos, 1, Len(infos) - 1), column),
                       infos[Len(infos)], column)

\* Iterator::rev.
rev(s) == [i \in 1..Len(s) |-> s[Len(s) + 1 - i]]

\* sort(files, column, direction).
sort(infos, column, direction) ==
    IF direction = "Ascending" THEN sorted_by(infos, column)
    ELSE rev(sorted_by(infos, column))

\* iter().position(|info| info.name == name), from 0; None when not found.
position(s, name) ==
    LET hits == { i \in 1..Len(s) : s[i].name = name } IN
    IF hits = {} THEN None ELSE (CHOOSE i \in hits : \A j \in hits : i <= j) - 1

\* The name of the file the selection points to, or None.
selected_name(st) ==
    IF st.selected # None /\ st.selected < Len(st.sorted_list)
    THEN st.sorted_list[st.selected + 1].name ELSE None

\* FileListState::handle_key_event for a key press: the state afterwards.
handle_key_event(st, key) ==
    CASE key = "n" -> [st EXCEPT !.sort_column = "Name", !.sort_direction = "Ascending"]
      [] key = "N" -> [st EXCEPT !.sort_column = "Name", !.sort_direction = "Descending"]
      [] key = "l" -> [st EXCEPT !.sort_column = "LineCount", !.sort_direction = "Ascending"]
      [] key = "L" -> [st EXCEPT !.sort_column = "LineCount", !.sort_direction = "Descending"]
      [] key = "a" -> [st EXCEPT !.sort_column = "Age", !.sort_direction = "Ascending"]
      [] key = "A" -> [st EXCEPT !.sort_column = "Age", !.sort_direction = "Descending"]
      [] key = "Up" ->
            [st EXCEPT !.selected = IF @ = None THEN None ELSE Max(@ - 1, 0)]
      [] key = "Down" ->
            [st EXCEPT !.selected =
                IF @ = None THEN None
                ELSE Min(@ + 1, Max(Len(st.sorted_list) - 1, 0))]
      [] OTHER -> st

\* FileListState::update with the list the repository returns.
FileListState_update(st, infos) ==
    IF st.hash = hash_of(infos) THEN st
    ELSE LET index == selected_name(st)
             sorted == sort(infos, st.sort_column, st.sort_direction)
             pos == IF index = None THEN None ELSE position(sorted, index)
         IN  [st EXCEPT !.hash = hash_of(infos), !.sorted_list = sorted,
                        !.selected = IF pos = None THEN 0 ELSE pos]

\* The worker changes the map: Repository::list() returns another list.
Repository_list_changes ==
    /\ \E l \in Listings : l # listing /\ listing' = l
    /\ last' = NoCall /\ res' = NoResult
    /\ UNCHANGED <<fls, file, reader, offsets, cache, since, slen, hist,
                   storeVars, repoVars, concVars, monVars>>

\* A key press reaches the file list.
FileList_handle_key_event ==
    /\ \E key \in Keys :
        /\ fls' = handle_key_event(fls, key)
        /\ last' = [RepoCall("key", 0, 0) EXCEPT !.kind = key]
        /\ res' = IF key = "Enter" /\ selected_name(fls) # None
                  THEN List(<<fls.sorted_list[fls.selected + 1]>>)
                  ELSE NoResult
    /\ UNCHANGED <<listing, file, reader, offsets, cache, since, slen, hist,
                   storeVars, repoVars, concVars, monVars>>

\* AppState::update: state.update(repo.list()), once per frame.
FileList_update ==
    /\ fls' = FileListState_update(fls, listing)
    /\ last' = RepoCall("fl_update", 0, 0)
    /\ res' = NoResult
    /\ UNCHANGED <<listing, file, reader, offsets, cache, since, slen, hist,
                   storeVars, repoVars, concVars, monVars>>

Init ==
    /\ store = <<>> /\ recency = <<>> /\ evicted = <<>>
    /\ upc = "idle" /\ uold = 0 /\ uoff = 0 /\ uscan = <<>> /\ ubase = <<>> /\ uk = 0
    /\ rpc = "idle" /\ rq = NoRange /\ rtabs = {}
    /\ upd2 = NoUpdate
    /\ events = <<>> /\ emitted = 0 /\ requests = <<>>
    /\ worker = "idle" /\ cur = NoEvent /\ inflight = 0
    /\ done = 0 /\ removed = FALSE /\ updated = 0 /\ stuck = FALSE
    /\ dir = [exists |-> FALSE, inodes |-> <<>>] /\ files = NoFile
    /\ notified = <<>> /\ tx = <<>> /\ watching = FALSE
    /\ mhist = [start |-> FALSE, boot |-> 0, kind |-> "none", n |-> 0]
    /\ listing = <<>> /\ fls = FileListState_default
    /\ file = <<>>
    /\ reader = "none"
    /\ offsets = <<>>
    /\ cache = LineCache_new
    /\ since = "same"
    /\ slen = 0
    /\ hist = "other"
    /\ last = NoCall
    /\ res = NoResult

Next ==
    \/ FileAppend
    \/ FileTruncate
    \/ LineIndexReader_index
    \/ LineIndexReader_update
    \/ LineIndexReader_consistency
    \/ LineIndexReader_lines

Spec == Init /\ [][Next]_vars

\* The line cache over a reader whose file only grows.
NextCache ==
    \/ FileAppend
    \/ LineIndexReader_index
    \/ LineIndexReader_update
    \/ LineCache_line
    \/ LineCache_lines
    \/ LineCache_lines_opt

SpecCache == Init /\ [][NextCache]_vars

\* The line cache's lines() over a file that can grow by a burst of lines.
NextPrefetch ==
    \/ FileAppend
    \/ FileBurst
    \/ LineIndexReader_index
    \/ LineIndexReader_update
    \/ LineCache_lines
    \/ LineCache_lines_wide

SpecPrefetch == Init /\ [][NextPrefetch]_vars

\* The index reader with I/O steps that can fail.
NextIo ==
    \/ FileAppend
    \/ FileTruncate
    \/ LineIndexReader_index
    \/ LineIndexReader_index_failing
    \/ LineIndexReader_lines
    \/ LineIndexReader_lines_failing

SpecIo == Init /\ [][NextIo]_vars

\* The Repository: the monitor, the worker task and the rendering thread's
\* queries, over one watched file that grows.
NextRepo ==
    \/ FileAppend
    \/ Monitor_emit
    \/ Worker_take_event
    \/ Worker_take_request
    \/ Worker_handle_event
    \/ Worker_handle_request
    \/ Repository_lines
    \/ Repository_total
    \/ Repository_list

SpecRepo == Init /\ [][NextRepo]_vars

\* The rendering thread asks for the widest window once more (every frame
\* repeats the query of the frame before).
Repository_lines_again ==
    /\ Repository_lines
    /\ last'.a = 0 /\ last'.b = MaxArg

\* The Repository with a worker that keeps running: every handler the worker
\* awaits comes to its end, select! takes from a channel that is ready again
\* and again, and the rendering thread keeps redrawing.
SpecRepoFair ==
    /\ SpecRepo
    /\ []<>(worker \in {"idle", "panicked"})
    /\ SF_vars(Worker_take_event)
    /\ SF_vars(Worker_take_request)
    /\ WF_vars(Repository_lines_again)

\* The Repository's worker over a watched file that is appended to and cut,
\* with update() calls whose I/O can fail.
NextRepoFile ==
    \/ FileAppend
    \/ FileTruncate
    \/ Monitor_emit
    \/ Worker_take_event
    \/ Worker_handle_event
    \/ Worker_handle_event_failing
    \/ Repository_list

SpecRepoFile == Init /\ [][NextRepoFile]_vars

\* update() running beside a reader of the same LineIndexReader, over a
\* file that grows.
NextConc ==
    \/ FileAppend
    \/ Conc_index
    \/ Update_check
    \/ Update_old_len
    \/ Update_offset
    \/ Update_scan
    \/ Update_extend
    \/ Update_result
    \/ Reader_len
    \/ Reader_lines_start
    \/ Reader_lines_end
    \/ Reader_lines_read

SpecConc == Init /\ [][NextConc]_vars

\* Two update() calls beside each other on one reader, over a file that
\* grows.
NextConc2 ==
    \/ FileAppend
    \/ Conc2_index
    \/ Update_check
    \/ Update_old_len
    \/ Update_offset
    \/ Update_scan
    \/ Update_extend
    \/ Update_result
    \/ Update2_check
    \/ Update2_old_len
    \/ Update2_offset
    \/ Update2_scan
    \/ Update2_extend
    \/ Update2_result
    \/ Update_on_poisoned

SpecConc2 == Init /\ [][NextConc2]_vars

\* The file list widget over a repository whose list changes.
NextFileList ==
    \/ Repository_list_changes
    \/ FileList_handle_key_event
    \/ FileList_update

SpecFileList == Init /\ [][NextFileList]_vars

\* The Monitor over one path of its directory.
NextMonitor ==
    \/ Fs_create
    \/ Fs_write
    \/ Fs_remove
    \/ Fs_access
    \/ Monitor_create
    \/ Notify_handler

SpecMonitor == Init /\ [][NextMonitor]_vars

\* The weighted store alone, under any sequence of insertions and hits.
NextStore ==
    \/ Store_insert
    \/ Store_get

SpecStore == Init /\ [][NextStore]_vars

\* ------------------------------------------------- notions of the properties
\* The number of line terminators in f.
CountNL(f) == Cardinality({ i \in 1..Len(f) : f[i] = NL })

\* f is empty or ends with a line terminator.
AllTerminated(f) == f = <<>> \/ f[Len(f)] = NL

\* f ends with a non-empty line that has no terminator.
OpenTail(f) == f # <<>> /\ f[Len(f)] # NL

\* The terminated lines of f, plus one for an open trailing line.
LineCount(f) == CountNL(f) + (IF OpenTail(f) THEN 1 ELSE 0)

\* The byte offset at which line i (from 0) of f begins: 0, or one past the
\* i-th line terminator.
LineStart(f, i) ==
    IF i = 0 THEN 0
    ELSE CHOOSE p \in 1..Len(f) :
            f[p] = NL /\ Cardinality({ q \in 1..p : f[q] = NL }) = i

StrictlyIncreasing(s) == \A i \in 1..(Len(s) - 1) : s[i] < s[i + 1]

\* The file at the last successful index()/update(), while it has only grown.
Base == SubSeq(file, 1, last.slen)
Appended == From(file, last.slen)

\* --------------------------------------------------------------- properties
\* The files of the properties below are text (valid UTF-8) unless a property
\* says otherwise; a file cut inside a character is not.

\* C1: index() of a file made of N newline-terminated lines, whatever their
\* content, builds an offset table of length N.
C1_IndexTerminatedLen ==
    (last.op = "index" /\ Utf8Valid(file) /\ AllTerminated(file))
    => Len(offsets) = CountNL(file)

\* C2: after a successful index()/update() on a file that is empty or ends
\* with a terminator, and M further terminated lines appended, update()
\* returns M and the table grows by M, for every starting table length.
C2_UpdateAppendedCount ==
    (/\ last.op = "update" /\ last.live
     /\ last.since \in {"same", "appended"} /\ Utf8Valid(file)
     /\ AllTerminated(Base) /\ AllTerminated(Appended))
    => /\ res = Ok(CountNL(Appended))
       /\ Len(offsets) = Len(last.pre) + CountNL(Appended)

\* C3: with the file unchanged since it was indexed and a <= b, lines(a..b)
\* on a table of length L returns min(b, L) - a lines when a < L and none
\* when a >= L, and always returns a value.
C3_LinesRangeCount ==
    (/\ last.op = "lines" /\ last.live /\ since = "same" /\ last.a <= last.b
     /\ Utf8Valid(file))
    => /\ res.kind = "Lines"
       /\ res.n = IF last.a < Len(offsets)
                  THEN Min(last.b, Len(offsets)) - last.a ELSE 0

\* C4: whenever consistency() reports Inconsistent(k) for the table and the
\* file update() starts from, update() returns Err(InconsistentIndex(k)) and
\* leaves the table as it was.
C4_UpdateRefusesInconsistent ==
    (/\ last.op = "update" /\ last.live
     /\ consistency(last.pre, file).kind = "Inconsistent")
    => /\ res = InconsistentIndex(consistency(last.pre, file).n)
       /\ offsets = last.pre

C4_Witness ==
    /\ last.op = "update" /\ last.live
    /\ res = InconsistentIndex(2)
    /\ Len(offsets) = 3

\* C5: after a truncation to a length len with offset[k-1] <= len < offset[k]
\* for some k >= 1, consistency() returns Inconsistent(k).
C5_TruncatedInconsistent ==
    \A k \in 1..(Len(offsets) - 1) :
        (/\ last.op = "consistency" /\ last.live /\ since = "truncated"
         /\ offsets[k] <= Len(file) /\ Len(file) < offsets[k + 1])
        => res = Inconsistent(k)

\* C6: consistency() returns Consistent whenever the file is as it was at the
\* last successful index()/update(), or has only been appended to since.
C6_ConsistentAfterSync ==
    (/\ last.op = "consistency" /\ last.live
     /\ since \in {"same", "appended"})
    => res = Consistent

C6_Witness ==
    /\ last.op = "consistency" /\ last.live
    /\ since = "appended"
    /\ Len(offsets) >= 3
    /\ res = Consistent

\* C7: after index() and successful update()s on a file that only grows, the
\* table is strictly increasing, has entry 0 equal to 0 when the file is not
\* empty, and entry i is the byte offset where line i begins.
C7_OffsetTableInvariant ==
    (/\ last.op \in {"index", "update"} /\ res.kind = "Ok"
     /\ hist \in {"untouched", "grown"} /\ Utf8Valid(file))
    => /\ StrictlyIncreasing(offsets)
       /\ file # <<>> => (offsets # <<>> /\ offsets[1] = 0)
       /\ \A i \in 1..Len(offsets) : offsets[i] = LineStart(file, i - 1)

\* C8: right after every successful index()/update() on a file that only
\* grows, the table length is the number of terminated lines, plus one for a
\* non-empty unterminated tail.
C8_LineCountInvariant ==
    (/\ last.op \in {"index", "update"} /\ res.kind = "Ok"
     /\ hist \in {"untouched", "grown"} /\ Utf8Valid(file))
    => Len(offsets) = LineCount(file)

\* The lines of a text file f, split at the terminators, without them.
FileLines(f) == read_lines(f, 0, None)

\* C9: indexing a file of N lines whose last line has no terminator gives a
\* table of length N, and every update() without a write in between returns
\* 0 and leaves the table unchanged.
C9_OpenTrailingLine ==
    /\ (last.op = "index" /\ Utf8Valid(file) /\ OpenTail(file))
       => Len(offsets) = LineCount(file)
    /\ (/\ last.op = "update" /\ last.live /\ Utf8Valid(file)
        /\ last.hist = "untouched" /\ OpenTail(file))
       => (res = Ok(0) /\ offsets = last.pre)

\* C10: for an unchanged file with L indexed lines, in every cache state,
\* LineCache::line(n) returns line n when n < L and None when n >= L.
C10_CacheLine ==
    (/\ last.op = "cache_line" /\ last.live
     /\ hist = "untouched" /\ Utf8Valid(file))
    => res = Line(IF last.a < Len(offsets)
                  THEN <<FileLines(file)[last.a + 1]>> ELSE <<>>)

\* C11: for a file unchanged since it was indexed, after any earlier cache
\* queries, LineCache::lines(a..b) with a <= b returns exactly the lines
\* LineIndexReader::lines(a..b) returns.
C11_CacheLinesEqualIndex ==
    (/\ last.op = "cache_lines" /\ last.live /\ last.a <= last.b
     /\ hist = "untouched" /\ Utf8Valid(file))
    => res = Lines(lines(offsets, file, last.a, last.b))

\* C13: lines_opt(a..b) with a <= b returns b - a entries, entry i being the
\* cached value of line a + i or None; it does not call the index reader
\* and leaves the cache as it was.
C13_LinesOptNeverFetches ==
    (last.op = "lines_opt" /\ last.a <= last.b)
    => /\ res.kind = "LinesOpt"
       /\ res.n = last.b - last.a
       /\ \A i \in 1..res.n :
            res.lines[i] = IF last.a + i - 1 \in DOMAIN last.cpre
                           THEN <<last.cpre[last.a + i - 1]>> ELSE <<>>
       /\ ~last.fetched
       /\ cache = last.cpre

C13_Witness ==
    /\ last.op = "lines_opt" /\ last.a = 0 /\ last.b = 2
    /\ Len(offsets) >= 2
    /\ res.lines[1] # <<>> /\ res.lines[2] = <<>>

C13_WitnessFresh ==
    /\ last.op = "lines_opt" /\ last.a = 0 /\ last.b = 2
    /\ Len(offsets) >= 2 /\ cache = <<>>
    /\ res = LinesOpt(<< <<>>, <<>> >>)

\* C14: when every line of a..b is cached, lines(a..b) returns the cached
\* lines, and line(n) of a cached line n returns it, without calling the
\* index reader and without changing the cache.
C14_CachedQueryNoFetch ==
    /\ (/\ last.op = "cache_lines"
        /\ \A k \in last.a..(last.b - 1) : k \in DOMAIN last.cpre)
       => /\ ~last.fetched
          /\ cache = last.cpre
          /\ res = Lines([i \in 1..(last.b - last.a) |-> last.cpre[last.a + i - 1]])
    /\ (last.op = "cache_line" /\ last.a \in DOMAIN last.cpre)
       => /\ ~last.fetched
          /\ cache = last.cpre
          /\ res = Line(<<last.cpre[last.a]>>)

C14_Witness ==
    /\ last.op = "cache_lines" /\ last.a = 0 /\ last.b = 2
    /\ {0, 1} \subseteq DOMAIN last.cpre
    /\ res.n = 2 /\ ~last.fetched

\* C12: after any sequence of insertions the total weight of the entries the
\* store holds is at most its capacity.
C12_CacheWeightBound == total_weight(store) <= Capacity

C12_Witness ==
    /\ evicted # <<>>
    /\ total_weight(store) = Capacity

\* C16: when opening or reading the file fails during lines(a..b), the
\* caller gets an I/O error, not an empty result, and the table is unchanged.
C16_LinesReportsIoFailure ==
    (last.op = "lines" /\ last.fail # "none")
    => res = IoError /\ offsets = last.pre

\* C17: index() returns Err(IoError) whenever opening the file or a read of
\* the scan fails, the read of bytes that are not valid text included; it
\* never returns Ok with a partly scanned table.
C17_IndexReportsIoFailure ==
    (last.op = "index" /\ (last.fail # "none" \/ ~Utf8Valid(file)))
    => res = IoError

\* C15: when Repository::lines finds an uncached line and the request
\* channel is full or closed, the request is dropped and the query returns
\* the leading cached lines; it does not panic.
C15_SaturatedQueueDrops ==
    (last.op = "repo_lines" /\ last.send \in {"full", "closed"})
    => res = Lines(leading(cache_lines_opt(cache, offsets, file, last.a, last.b).opts))

\* C18: the worker handles one thing at a time and the events in the order
\* of their delivery: at most one handler is in flight, the event being
\* handled is the one after the last event handled, and the waiting events
\* follow it in order.
C18_EventSerialization ==
    /\ inflight <= 1
    /\ worker = "event" => cur.id = done + 1
    /\ worker # "panicked" =>
         \A i \in 1..Len(events) :
            events[i].id = done + (IF worker = "event" THEN 1 ELSE 0) + i

C18_Witness ==
    /\ worker = "event" /\ cur.kind = "Modified" /\ reader = "ready"
    /\ done >= 1 /\ events # <<>> /\ requests # <<>>

\* C20: once a Removed event has been handled and until a Created event
\* re-indexes the file, list() is empty, lines(name, ..) is empty and
\* total(name) is 0; a Created event whose index() succeeds installs the new
\* index with an empty cache that no queued request fills.
C20_RemovedUntilCreated ==
    /\ (removed /\ last.op = "repo_list") => res = List(<<>>)
    /\ (removed /\ last.op = "repo_lines") => res = Lines(<<>>)
    /\ (removed /\ last.op = "repo_total") => res = Ok(0)
    /\ (last.op = "handle_event" /\ last.kind = "Created" /\ res.kind = "Ok")
       => /\ reader = "ready" /\ ~removed
          /\ offsets = index_lines(file, 0)
          /\ cache = LineCache_new
          /\ \A i \in 1..Len(requests) : requests[i].stale

C20_Witness ==
    /\ removed /\ done >= 2 /\ file # <<>>
    /\ last.op = "repo_total" /\ res = Ok(0)

C20_WitnessCreated ==
    /\ last.op = "handle_event" /\ last.kind = "Created" /\ res.kind = "Ok"
    /\ done = 3 /\ requests # <<>> /\ Len(offsets) >= 2

\* C19: what len() or lines(a..b) returns while an update() runs is what
\* it returns on a table that is entirely without or entirely with the
\* offsets that update appends.
C19_AtomicAppendVisibility ==
    /\ last.op = "conc_len" => \E T \in rtabs : res = Ok(Len(T))
    /\ (last.op = "conc_lines" /\ res # Panic)
       => \E T \in rtabs : res = Lines(lines(T, file, last.a, last.b))

C19_Witness ==
    /\ last.op = "conc_len" /\ upc = "extended"
    /\ Len(uscan) >= 3 /\ res = Ok(Len(ubase) + 2)

C19_WitnessLines ==
    /\ last.op = "conc_lines" /\ Cardinality(rtabs) = 2
    /\ upc = "extended" /\ Len(uscan) >= 3 /\ res.n >= 1

\* C24: in every update() that passes the consistency check, whatever the
\* table before it (an empty one included), the rescan yields at least one
\* offset, its first offset is the last entry the table already had, and
\* only that duplicate is discarded: every offset of the rescan is in the
\* table afterwards.
C24_RescanDropsOnlyDuplicate ==
    (/\ last.op = "update" /\ last.live /\ Utf8Valid(file)
     /\ consistency(last.pre, file).kind = "Consistent")
    => LET offset == IF last.pre = <<>> THEN 0 ELSE last.pre[Len(last.pre)]
           scanned == index_lines(file, offset)
       IN  /\ scanned # <<>>
           /\ last.pre # <<>> => scanned[1] = last.pre[Len(last.pre)]
           /\ \A i \in 1..Len(scanned) :
                \E j \in 1..Len(offsets) : offsets[j] = scanned[i]

\* C25: update() is append-only: every entry the table had before an
\* update() is afterwards at the same position with the same value; the
\* offset recorded for an unterminated last line stays when the line is
\* later extended or terminated.
C25_UpdateAppendOnly ==
    last.op = "update"
    => /\ Len(offsets) >= Len(last.pre)
       /\ SubSeq(offsets, 1, Len(last.pre)) = last.pre

\* An update() that added entries after the file grew behind an
\* unterminated last line, whose recorded offset is still in place.
C25_Witness ==
    /\ last.op = "update" /\ last.live /\ last.since = "appended"
    /\ last.pre # <<>> /\ OpenTail(Base)
    /\ res.kind = "Ok" /\ res.n >= 1
    /\ Len(offsets) > Len(last.pre)
    /\ offsets[Len(last.pre)] = last.pre[Len(last.pre)]

\* The table indices >= 1 whose recorded offset lies beyond the file or has
\* no newline right before it.
Violating(offs, f) ==
    { i \in 1..(Len(offs) - 1) :
        \/ offs[i + 1] > Len(f)
        \/ offs[i + 1] = 0
        \/ f[offs[i + 1]] # NL }

\* C26: consistency() returns the least violating index: Inconsistent(i) for
\* the smallest table index i >= 1 whose offset exceeds the file length or
\* whose preceding byte is not a newline, and Consistent exactly when there
\* is no such index, however the file was rewritten or truncated.
C26_LeastViolatingIndex ==
    (last.op = "consistency" /\ last.live)
    => LET v == Violating(offsets, file) IN
       IF v = {} THEN res = Consistent
       ELSE res = Inconsistent(CHOOSE i \in v : \A j \in v : i <= j)

\* The first line of a..b that cache c does not hold (b when it holds all).
FirstMiss(c, a, b) ==
    IF \E i \in a..(b - 1) : i \notin DOMAIN c
    THEN CHOOSE i \in a..(b - 1) :
            i \notin DOMAIN c /\ \A j \in a..(i - 1) : j \in DOMAIN c
    ELSE b

\* C27: when the first cache miss of LineCache::lines(start..end) is at line
\* m < end, one fetch is issued to the index, for the range
\* m .. end + min(10 * (end - start), 2048); every line the fetch returns is
\* in the cache afterwards under its absolute number m, m + 1, ...; the
\* lines returned are the cached run and the fetched lines up to end.
C27_PrefetchWindow ==
    LET m == FirstMiss(last.cpre, last.a, last.b)
        pend == last.b + Min(10 * (last.b - last.a), 2048)
        fetched == lines(offsets, file, m, pend)
    IN  (last.op = "cache_lines" /\ last.live /\ m < last.b)
        => /\ last.range = <<m, pend>>
           /\ \A i \in 1..Len(fetched) :
                /\ (m + i - 1) \in DOMAIN cache
                /\ cache[m + i - 1] = fetched[i]
           /\ res.lines = [i \in 1..(m - last.a) |-> last.cpre[last.a + i - 1]]
                          \o SubSeq(fetched, 1, Min(Len(fetched), last.b - m))

\* The bytes of f from offset off up to the next line terminator.
RECURSIVE LineAt(_, _)
LineAt(f, off) ==
    IF off >= Len(f) \/ f[off + 1] = NL THEN <<>>
    ELSE <<f[off + 1]>> \o LineAt(f, off + 1)

\* The cache holds for line k less than the file now has at line k's
\* recorded offset: k was cached as an unterminated last line and has grown.
Stale(k) ==
    /\ reader = "ready" /\ k \in DOMAIN cache /\ k < Len(offsets)
    /\ LET now == LineAt(file, offsets[k + 1]) IN
       /\ Len(cache[k]) < Len(now)
       /\ cache[k] = SubSeq(now, 1, Len(cache[k]))

C28_WitnessOpt ==
    /\ last.op = "lines_opt" /\ last.live /\ hist = "grown"
    /\ last.a < last.b /\ Stale(last.a)
    /\ res.lines[1] = <<cache[last.a]>>

\* C29: a failed update() changes nothing: whenever the update() of a
\* Modified event returns Err (IoError from a failing open, seek or read, or
\* InconsistentIndex), the offset table is what it was before the call and
\* the entry's last-update timestamp is not advanced.
C29_FailedUpdateChangesNothing ==
    [][(/\ last'.op = "handle_event" /\ last'.kind = "Modified"
        /\ res'.kind \in {"IoError", "InconsistentIndex"})
       => (offsets' = offsets /\ updated' = updated)]_vars

\* An update() that failed on an I/O step while the file had grown behind a
\* non-empty table.
C29_Witness ==
    /\ last.op = "handle_event" /\ last.kind = "Modified"
    /\ last.fail \in Failures /\ res = IoError
    /\ offsets # <<>> /\ since = "appended"
    /\ updated > 0 /\ updated < last.a

\* An update() that refused an inconsistent index.
C29_WitnessInconsistent ==
    /\ last.op = "handle_event" /\ last.kind = "Modified"
    /\ res.kind = "InconsistentIndex"
    /\ updated > 0 /\ updated < last.a

C30_EnqueuesOnGap ==
    [][(/\ last'.op = "repo_lines" /\ reader # "none"
        /\ \E i \in last'.a..(last'.b - 1) : i \notin DOMAIN cache)
       => (/\ requests' = Append(requests, Request(last'.a, last'.b))
           /\ res' = Lines(leading(
                  cache_lines_opt(cache, offsets, file, last'.a, last'.b).opts)))]_vars

\* A query for the widest window that was answered short and enqueued its
\* request is followed by one that returns the whole window, unless the
\* worker is gone or the entry no longer has that many indexed lines.
C30_EventuallyServed ==
    (/\ last.op = "repo_lines" /\ last.a = 0 /\ last.b = MaxArg
     /\ last.send = "ok")
    ~> (\/ /\ last.op = "repo_lines" /\ last.a = 0 /\ last.b = MaxArg
           /\ res.kind = "Lines" /\ res.n = MaxArg
        \/ worker = "panicked" \/ reader # "ready" \/ Len(offsets) < MaxArg)

\* C30: whenever Repository::lines(name, from, to) finds an uncached line in
\* from..to it enqueues one fetch request (cache, from, to) and returns the
\* leading run of cached lines; and while the worker keeps running and the
\* file has at least `to` indexed lines, a later identical query returns all
\* to - from lines.
C30_BackgroundFetch == C30_EnqueuesOnGap /\ C30_EventuallyServed

\* C22: Monitor::create sends one Created event for the file already under
\* the watched path and none when there is no file, these events come before
\* every event of the watcher, and a notify event of kind Access sends
\* nothing.
C22_StartupCreated ==
    watching
    => /\ mhist.boot = (IF mhist.start THEN 1 ELSE 0)
       /\ mhist.boot <= Len(tx)
       /\ \A i \in 1..mhist.boot : tx[i] = Created
       /\ mhist.kind = "Access" => mhist.n = 0

\* The lines carried by the NewLine events of a sequence of events.
RECURSIVE Payloads(_)
Payloads(evs) ==
    IF evs = <<>> THEN <<>>
    ELSE (IF Head(evs).kind = "NewLine" THEN <<Head(evs).line>> ELSE <<>>)
         \o Payloads(Tail(evs))

\* C23: the events sent for the path follow the changes under it: a Created
\* event comes first or right after a Removed, nothing but a Created follows
\* a Removed, and the NewLine events of a file carry its lines, one event
\* per line and in file order.
C23_PerPathOrder ==
    /\ \A i \in 1..Len(tx) :
         tx[i].kind = "Created" => (i = 1 \/ tx[i - 1].kind = "Removed")
    /\ \A i \in 1..(Len(tx) - 1) :
         tx[i].kind = "Removed" => tx[i + 1].kind = "Created"
    /\ Len(dir.inodes) = 1
       => LET sent == Payloads(tx)
              text == FileLines(dir.inodes[1])
          IN  /\ Len(sent) <= Len(text)
              /\ sent = SubSeq(text, 1, Len(sent))

\* C31: no LineCache operation changes the offset table of the reader it
\* wraps: a fetch by the worker (lines), a query of the rendering thread
\* (lines_opt, total, list) and line() leave the table and the reader as
\* they are; the table of an entry changes only in handle_event, by the
\* update() of a Modified event (a Created event installs a new reader, a
\* Removed event drops the entry).
C31_CacheNeverMutatesIndex ==
    [][/\ (last'.op \in {"fetch", "repo_lines", "repo_total", "repo_list",
                         "cache_line", "cache_lines", "lines_opt"})
          => (offsets' = offsets /\ reader' = reader)
       /\ (offsets' # offsets)
          => (/\ last'.op \in {"handle_event", "update", "index"}
              /\ (last'.op = "handle_event" /\ reader = "ready" /\ reader' = "ready"
                  /\ last'.kind # "Created")
                 => (last'.kind = "Modified" /\ res'.kind = "Ok"))]_vars

\* The worker's fetch filled the cache of an entry whose file has grown past
\* its table; the table is as the last Modified event left it.
C31_Witness ==
    /\ last.op = "fetch" /\ last.kind = "Request"
    /\ reader = "ready" /\ since = "appended"
    /\ cache # <<>> /\ Len(offsets) >= 2
    /\ Len(index_lines(file, 0)) > Len(offsets)

\* The weight of a line as the policy states it: its length in bytes, at
\* least 1.
EntryWeight(line) == IF Len(line) = 0 THEN 1 ELSE Len(line)

RECURSIVE WeightOf(_, _)
WeightOf(c, keys) ==
    IF keys = {} THEN 0
    ELSE LET k == CHOOSE k \in keys : TRUE IN
         EntryWeight(c[k]) + WeightOf(c, keys \ {k})

C33_UpdateAlwaysReturns ==
    /\ (last.op = "update" /\ last.live)
       => res.kind \in {"Ok", "IoError", "InconsistentIndex"}
    /\ (last.op = "consistency" /\ last.live)
       => res.kind \in {"Consistent", "Inconsistent", "IoError"}

\* C34: however two update() calls on one reader interleave, the offset
\* table stays strictly increasing (no offset is recorded twice), and each
\* call that returns Ok returns the number of entries it appended itself.
C34_ConcurrentUpdatesWellFormed ==
    /\ reader = "ready" => StrictlyIncreasing(offsets)
    /\ (last.op = "conc_update" /\ res.kind = "Ok") => res.n = Len(uscan) - 1
    /\ (last.op = "conc_update2" /\ res.kind = "Ok") => res.n = Len(upd2.scan) - 1

\* C35: the cache never runs ahead of the index: in every state of a live
\* reader, also when the file has grown since the last successful update(),
\* every line number the cache holds is below the table's length, and
\* LineCache::lines(a..b) returns at most min(b, len()) - a lines.
C35_CacheWithinIndex ==
    reader = "ready"
    => /\ \A k \in DOMAIN cache : k < Len(offsets)
       /\ (last.op = "cache_lines" /\ last.live)
          => res.n <= Max(0, Min(last.b, Len(offsets)) - last.a)

\* C36: LineIndexReader::lines(a..b) returns lines of its range only: the
\* result starts at line a and has at most b - a lines, so it is empty
\* whenever a >= b (an empty or inverted range), also when a is a line of
\* the table.
C36_LinesWithinRange ==
    (last.op = "lines" /\ last.live /\ last.fail = "none")
    => /\ res.kind = "Lines"
       /\ res.n <= Max(0, last.b - last.a)

\* C37: the query path never waits for index I/O: in every state in which
\* the worker is applying a Modified event to the file's entry (its update()
\* in progress), the rendering thread's list(), total() and lines() can
\* complete, i.e. none of them needs a lock the worker holds.
C37_QueryNeverWaits ==
    (worker = "event" /\ cur.kind = "Modified" /\ reader # "none")
    => /\ ENABLED Repository_list
       /\ ENABLED Repository_total
       /\ ENABLED Repository_lines

\* s is ordered by the column and the direction.
Ordered(s, column, direction) ==
    \A i \in 1..(Len(s) - 1) :
        IF direction = "Ascending"
        THEN cmp_key(s[i], column) <= cmp_key(s[i + 1], column)
        ELSE cmp_key(s[i], column) >= cmp_key(s[i + 1], column)

\* C38, sorting: every FileListState::update leaves sorted_list ordered by
\* the column and direction selected, also the update that follows a sort
\* key when the repository's list is what it was at the update before.
C38_Sorted ==
    [][last'.op = "fl_update"
       => Ordered(fls'.sorted_list, fls'.sort_column, fls'.sort_direction)]_vars

\* C38, selection: after an update the selection points to the file it
\* pointed to before, if the repository still lists that file.
C38_SelectionFollows ==
    [][(/\ last'.op = "fl_update"
        /\ selected_name(fls) # None
        /\ position(listing, selected_name(fls)) # None)
       => selected_name(fls') = selected_name(fls)]_vars

\* C38: file list sorting takes effect and the selection follows its file.
C38_SortTakesEffect == C38_Sorted /\ C38_SelectionFollows

====
